---------------------------- MODULE Spec2Model ----------------------------
(***************************************************************************)
(* A model of the rustoa client library (src/src/lib.rs): the Season       *)
(* registry, the property normalisers of Team and Event, the two           *)
(* aggregators (sum over season results, find by team in rankings), the    *)
(* event map built by Team::events, and the GET requests every accessor    *)
(* sends.                                                                  *)
(*                                                                         *)
(* The remote API is the variable remote, a function from request targets  *)
(* to responses.  A response is a transport error, a body that is not      *)
(* JSON, or a JSON value (serde_json::Value).  Every accessor is one       *)
(* action; it records the call, its outcome and the targets it requested   *)
(* in the variable last.                                                   *)
(*                                                                         *)
(* Numbers: an f64 is modelled as a fixed-point decimal, an integer count  *)
(* of 1/Unit.  Strings are TLA+ strings, read character by character with  *)
(* SubSeq.                                                                 *)
(***************************************************************************)
EXTENDS Integers, Sequences, FiniteSets, TLC

VARIABLES remote, client, team, event, last

vars == <<remote, client, team, event, last>>

---------------------------------------------------------------------------
(* Outcomes of a call: a returned value, an Err returned by a function     *)
(* with a Result type, or a panic.                                         *)

Ok(v) == [k |-> "Ok", v |-> v]

Err == [k |-> "Err"]

Panic == [k |-> "Panic"]

Failed(r) == r.k # "Ok"

---------------------------------------------------------------------------
(* serde_json::Value                                                       *)

\* one f64 unit: numbers are counted in thousandths
Unit == 1000

JNull == [t |-> "null"]

JBool(b) == [t |-> "bool", b |-> b]

\* serde_json::Number is PosInt(u64), NegInt(i64) or Float(f64); n is the
\* value in 1/Unit
JNum(kind, n) == [t |-> "num", kind |-> kind, n |-> n]

JInt(i) == JNum(IF i >= 0 THEN "PosInt" ELSE "NegInt", i * Unit)

JFloat(n) == JNum("Float", n)

JStr(s) == [t |-> "str", s |-> s]

JArr(a) == [t |-> "arr", a |-> a]

JObj(o) == [t |-> "obj", o |-> o]

\* responses that carry no JSON value
TransportErr == [t |-> "transport_err"]

BadJson == [t |-> "bad_json"]

IsJson(r) == r.t \in {"null", "bool", "num", "str", "arr", "obj"}

\* Value::as_f64: every number converts
IsF64(v) == v.t = "num"

\* Value::as_u64 / Number::as_u64: only a PosInt converts
IsU64(v) == v.t = "num" /\ v.kind = "PosInt"

AsU64(v) == v.n \div Unit

\* Index<&str> for Value: Null unless v is an object that has the key
Get(v, key) == IF v.t = "obj" /\ key \in DOMAIN v.o THEN v.o[key] ELSE JNull

\* `f64 as u32`: truncates toward zero and saturates at 0 (values above
\* u32::MAX saturate too; the numbers of this model stay far below it)
AsU32(n) == IF n < 0 THEN 0 ELSE n \div Unit

\* u64::to_string / Display for integers: decimal digits, no sign, no padding
DigitChar(d) ==
    CASE d = 0 -> "0" [] d = 1 -> "1" [] d = 2 -> "2" [] d = 3 -> "3"
      [] d = 4 -> "4" [] d = 5 -> "5" [] d = 6 -> "6" [] d = 7 -> "7"
      [] d = 8 -> "8" [] d = 9 -> "9"

RECURSIVE U64ToString(_)
U64ToString(u) ==
    IF u < 10 THEN DigitChar(u) ELSE U64ToString(u \div 10) \o DigitChar(u % 10)

---------------------------------------------------------------------------
(* Season                                                                  *)

Seasons == {"SkyStone", "RoverRuckus", "RelicRecovery", "VelocityVortex"}

\* Season::value
SeasonValue(s) ==
    CASE s = "SkyStone" -> 1920
      [] s = "RoverRuckus" -> 1819
      [] s = "RelicRecovery" -> 1718
      [] s = "VelocityVortex" -> 1617

\* mutant: two arms of the match exchanged
SeasonValueOfSwapped(s) ==
    CASE s = "1920" -> Ok("SkyStone")
      [] s = "1819" -> Ok("RelicRecovery")
      [] s = "1718" -> Ok("RoverRuckus")
      [] s = "1617" -> Ok("VelocityVortex")
      [] OTHER -> Panic

\* mutant: an unknown code falls back to the current season
SeasonValueOfDefault(s) ==
    CASE s = "1920" -> Ok("SkyStone")
      [] s = "1819" -> Ok("RoverRuckus")
      [] s = "1718" -> Ok("RelicRecovery")
      [] s = "1617" -> Ok("VelocityVortex")
      [] OTHER -> Ok("SkyStone")

\* Season::value_of: panics on every other string
SeasonValueOf(s) ==
    CASE s = "1920" -> Ok("SkyStone")
      [] s = "1819" -> Ok("RoverRuckus")
      [] s = "1718" -> Ok("RelicRecovery")
      [] s = "1617" -> Ok("VelocityVortex")
      [] OTHER -> Panic

\* impl Display for Season
SeasonDisplay(s) ==
    CASE s = "SkyStone" -> "Season::SkyStone"
      [] s = "RoverRuckus" -> "Season::RoverRuckus"
      [] s = "RelicRecovery" -> "Season::RelicRecovery"
      [] s = "VelocityVortex" -> "Season::VelocityVortex"

---------------------------------------------------------------------------
(* Client, Team, Event                                                     *)

ApiKeys == {"key"}

TeamNumbers == {200, 16405}

EventKeys == {"1920-TX-AAA", "1920-TX-BBB", "1920-CMP-AAA"}

NoTeam == [none |-> TRUE]

NoEvent == [none |-> TRUE]

\* Client::new
ClientNew(api_key) == [api_key |-> api_key, application_name |-> "rustoa"]

\* mutant: the team is given a client without the API key
TeamNewKeyless(team_number, c) ==
    [client |-> [api_key |-> "", application_name |-> c.application_name],
     team_number |-> team_number]

\* Team::new
TeamNew(team_number, c) == [client |-> c, team_number |-> team_number]

\* Event::new
EventNew(event_key, c) == [event_key |-> event_key, client |-> c]

\* the body the API answers for a target it does not know
NotFound == JObj([key \in {"_code"} |-> JInt(404)])

\* mutant: the client keeps the target of the call before and asks for it
\* again
RequestStale(target) ==
    IF last.op # "none" /\ last.log # <<>> /\ last.log[1] \in DOMAIN remote
    THEN remote[last.log[1]]
    ELSE IF target \in DOMAIN remote THEN remote[target] ELSE NotFound

\* Client::request: one GET of the target; the response, or the transport
\* error, is what the remote holds for it
Request(target) ==
    IF target \in DOMAIN remote THEN remote[target] ELSE NotFound

\* the request targets the accessors format
TargetRoot == "/"

TargetWlt(n) == "/team/" \o U64ToString(n) \o "/wlt"

TargetTeam(n) == "/team/" \o U64ToString(n) \o "/"

TargetResults(n, s) ==
    "/team/" \o U64ToString(n) \o "/results/" \o U64ToString(SeasonValue(s))

TargetEvents(n, s) ==
    "/team/" \o U64ToString(n) \o "/events/" \o U64ToString(SeasonValue(s))

TargetEvent(key) == "/event/" \o key

TargetRankings(key) == "/event/" \o key \o "/rankings"

---------------------------------------------------------------------------
(* The property normalisers                                                *)

\* Team::properties, the match on one property value: no arm for Bool
TeamValue(v) ==
    CASE v.t = "str" -> Ok(v.s)
      [] v.t = "num" -> IF IsU64(v) THEN Ok(U64ToString(AsU64(v))) ELSE Panic
      [] v.t = "null" -> Ok("null")
      [] OTHER -> Panic

\* mutant: last_active is stored as it came
TeamEntryRaw(key, v) == TeamValue(v)

\* Team::properties, the body of the loop: the entry stored under key
TeamEntry(key, v) ==
    LET value == TeamValue(v)
    IN  IF Failed(value) THEN Panic
        ELSE IF key = "last_active"
             THEN LET season == SeasonValueOf(value.v)
                  IN  IF Failed(season) THEN Panic
                      ELSE Ok(SeasonDisplay(season.v))
             ELSE value

\* mutant: the season label is stored under a key of its own
TeamPropertiesOfRenamed(resp) ==
    IF ~IsJson(resp) THEN Panic
    ELSE IF resp.t # "arr" THEN Panic
    ELSE IF Len(resp.a) = 0 THEN Panic
    ELSE IF resp.a[1].t # "obj" THEN Panic
    ELSE LET new == resp.a[1].o
             stored == {IF key = "last_active" THEN "season" ELSE key :
                           key \in DOMAIN new}
         IN  IF \E key \in DOMAIN new : Failed(TeamEntry(key, new[key]))
             THEN Panic
             ELSE Ok([key \in stored |->
                         IF key = "season" /\ "last_active" \in DOMAIN new
                         THEN TeamEntry("last_active", new["last_active"]).v
                         ELSE TeamEntry(key, new[key]).v])

\* Team::properties from the response on: the map, or a panic
TeamPropertiesOf(resp) ==
    IF ~IsJson(resp) THEN Panic
    ELSE IF resp.t # "arr" THEN Panic
    ELSE IF Len(resp.a) = 0 THEN Panic
    ELSE IF resp.a[1].t # "obj" THEN Panic
    ELSE LET new == resp.a[1].o
         IN  IF \E key \in DOMAIN new : Failed(TeamEntry(key, new[key]))
             THEN Panic
             ELSE Ok([key \in DOMAIN new |-> TeamEntry(key, new[key]).v])

\* Event::properties, the match on one property value
EventValue(v) ==
    CASE v.t = "str" -> Ok(v.s)
      [] v.t = "num" -> IF IsU64(v) THEN Ok(U64ToString(AsU64(v))) ELSE Panic
      [] v.t = "null" -> Ok("null")
      [] v.t = "bool" -> IF v.b THEN Ok("true") ELSE Ok("false")
      [] OTHER -> Panic

\* mutant: an empty array gives an empty map
EventPropertiesOfEmpty(resp) ==
    IF ~IsJson(resp) THEN Panic
    ELSE IF resp.t # "arr" THEN Panic
    ELSE IF Len(resp.a) = 0 THEN Ok(<<>>)
    ELSE IF resp.a[1].t # "obj" THEN Panic
    ELSE LET new == resp.a[1].o
         IN  IF \E key \in DOMAIN new : Failed(EventValue(new[key]))
             THEN Panic
             ELSE Ok([key \in DOMAIN new |-> EventValue(new[key]).v])

\* Event::properties from the response on
EventPropertiesOf(resp) ==
    IF ~IsJson(resp) THEN Panic
    ELSE IF resp.t # "arr" THEN Panic
    ELSE IF Len(resp.a) = 0 THEN Panic
    ELSE IF resp.a[1].t # "obj" THEN Panic
    ELSE LET new == resp.a[1].o
         IN  IF \E key \in DOMAIN new : Failed(EventValue(new[key]))
             THEN Panic
             ELSE Ok([key \in DOMAIN new |-> EventValue(new[key]).v])

---------------------------------------------------------------------------
(* The scalar accessors                                                    *)

\* Client::api_version: the body deserialises as HashMap<String, String>
ApiVersionOf(resp) ==
    IF ~IsJson(resp) THEN Panic
    ELSE IF resp.t # "obj" THEN Panic
    ELSE IF \E key \in DOMAIN resp.o : resp.o[key].t # "str" THEN Panic
    ELSE IF "version" \notin DOMAIN resp.o THEN Panic
    ELSE Ok(resp.o["version"].s)

\* an element of the body deserialises as HashMap<String, u32>
IsU32Map(v) == v.t = "obj" /\ \A key \in DOMAIN v.o : IsU64(v.o[key])

\* Team::wins, Team::losses, Team::ties: the body deserialises as
\* Vec<HashMap<String, u32>>, m[0] is taken and the field read from it
WltOf(resp, field) ==
    IF ~IsJson(resp) THEN Panic
    ELSE IF resp.t # "arr" THEN Panic
    ELSE IF \E i \in 1..Len(resp.a) : ~IsU32Map(resp.a[i]) THEN Panic
    ELSE IF Len(resp.a) = 0 THEN Panic
    ELSE IF field \notin DOMAIN resp.a[1].o THEN Panic
    ELSE Ok(AsU64(resp.a[1].o[field]))

\* mutant: the name is read from event_key
EventNameOfKey(resp) ==
    IF ~IsJson(resp) THEN Panic
    ELSE IF resp.t # "arr" THEN Panic
    ELSE IF Len(resp.a) = 0 THEN Panic
    ELSE LET val == Get(resp.a[1], "event_key")
         IN  IF val.t = "str" THEN Ok(val.s) ELSE Panic

\* Event::name
EventNameOf(resp) ==
    IF ~IsJson(resp) THEN Panic
    ELSE IF resp.t # "arr" THEN Panic
    ELSE IF Len(resp.a) = 0 THEN Panic
    ELSE LET val == Get(resp.a[1], "event_name")
         IN  IF val.t = "str" THEN Ok(val.s) ELSE Panic

---------------------------------------------------------------------------
(* The aggregators                                                         *)

\* mutant: halves rounded up, floor(x + 0.5)
RoundHalfUp(num, den) == (2 * num + den) \div (2 * den)

\* f64::round of the quotient num / den (den > 0): the nearest integer,
\* halves away from zero
Round(num, den) ==
    IF num >= 0 THEN (2 * num + den) \div (2 * den)
    ELSE -((2 * (-num) + den) \div (2 * den))

\* (i * 100.0).round() / 100.0, on a value counted in 1/Unit
Round2(i) == Round(i * 100, Unit) * (Unit \div 100)

\* the loop of get_season_data: i += num over the records from index j on
RECURSIVE SumFrom(_, _, _)
SumFrom(arr, query, j) ==
    IF j > Len(arr) THEN 0
    ELSE Get(arr[j], query).n + SumFrom(arr, query, j + 1)

\* the sum of the records that have a number under query
RECURSIVE SumOfNumbers(_, _, _)
SumOfNumbers(arr, query, j) ==
    IF j > Len(arr) THEN 0
    ELSE (IF IsF64(Get(arr[j], query)) THEN Get(arr[j], query).n ELSE 0)
             + SumOfNumbers(arr, query, j + 1)

\* mutant: a record without a number under query counts as 0
GetSeasonDataOfLenient(resp, query) ==
    IF ~IsJson(resp) THEN Err
    ELSE IF resp.t # "arr" THEN Panic
    ELSE Ok(Round2(SumOfNumbers(resp.a, query, 1)))

\* Team::get_season_data from the response on
GetSeasonDataOf(resp, query) ==
    IF ~IsJson(resp) THEN Err
    ELSE IF resp.t # "arr" THEN Panic
    ELSE IF \E j \in 1..Len(resp.a) : ~IsF64(Get(resp.a[j], query)) THEN Panic
    ELSE Ok(Round2(SumFrom(resp.a, query, 1)))

\* mutant: the team number of the record is not compared
RECURSIVE RankingsFromAnyTeam(_, _, _, _)
RankingsFromAnyTeam(arr, team_number, query, j) ==
    IF j > Len(arr) THEN Panic
    ELSE LET num == Get(Get(arr[j], "team"), "team_number")
         IN  IF ~IsF64(num) THEN Panic
             ELSE IF IsF64(Get(arr[j], query))
                  THEN Ok(Get(arr[j], query).n)
                  ELSE RankingsFromAnyTeam(arr, team_number, query, j + 1)

\* mutant: a record without a numeric team number is skipped
RECURSIVE RankingsFromSkip(_, _, _, _)
RankingsFromSkip(arr, team_number, query, j) ==
    IF j > Len(arr) THEN Panic
    ELSE LET num == Get(Get(arr[j], "team"), "team_number")
         IN  IF /\ IsF64(num)
                /\ AsU32(num.n) = team_number
                /\ IsF64(Get(arr[j], query))
             THEN Ok(Get(arr[j], query).n)
             ELSE RankingsFromSkip(arr, team_number, query, j + 1)

\* the loop of get_rankings_data from index j on: a record of the team
\* whose field is not a number is skipped (continue)
RECURSIVE RankingsFrom(_, _, _, _)
RankingsFrom(arr, team_number, query, j) ==
    IF j > Len(arr) THEN Panic
    ELSE LET num == Get(Get(arr[j], "team"), "team_number")
         IN  IF ~IsF64(num) THEN Panic
             ELSE IF AsU32(num.n) = team_number /\ IsF64(Get(arr[j], query))
                  THEN Ok(Get(arr[j], query).n)
                  ELSE RankingsFrom(arr, team_number, query, j + 1)

\* Event::get_rankings_data from the response on
GetRankingsDataOf(resp, team_number, query) ==
    IF ~IsJson(resp) THEN Err
    ELSE IF resp.t # "arr" THEN Panic
    ELSE RankingsFrom(resp.a, team_number, query, 1)

\* the public accessors over get_season_data and get_rankings_data panic
\* on Err
Unwrap(r) == IF r.k = "Err" THEN Panic ELSE r

\* the field each season accessor of Team asks get_season_data for
SeasonQuery ==
    [season_wins |-> "wins", season_losses |-> "losses",
     season_ties |-> "ties", opr |-> "opr", np_opr |-> "np_opr",
     ranking_points |-> "ranking_points",
     qualifying_points |-> "qualifying_points",
     tiebreaker_points |-> "tie_breaker_points"]

\* the field each ranking accessor of Event asks get_rankings_data for
RankingsQuery ==
    [rank |-> "rank", rank_change |-> "rank_change", wins |-> "wins",
     losses |-> "losses", ties |-> "ties", opr |-> "opr",
     np_opr |-> "np_opr", highest_qualifier_score |-> "highest_qual_score",
     ranking_points |-> "ranking_points",
     qualifying_points |-> "qualifying_points",
     tiebreaker_points |-> "tie_breaker_points"]

---------------------------------------------------------------------------
(* Team::events                                                            *)

Ch(s, i) == SubSeq(s, i, i)

IsDigit(c) == c \in {"0", "1", "2", "3", "4", "5", "6", "7", "8", "9"}

UpperChars ==
    {"A", "B", "C", "D", "E", "F", "G", "H", "I", "J", "K", "L", "M",
     "N", "O", "P", "Q", "R", "S", "T", "U", "V", "W", "X", "Y", "Z"}

LowerChars ==
    {"a", "b", "c", "d", "e", "f", "g", "h", "i", "j", "k", "l", "m",
     "n", "o", "p", "q", "r", "s", "t", "u", "v", "w", "x", "y", "z"}

\* the class \w of the regex
IsWord(c) == IsDigit(c) \/ c \in UpperChars \/ c \in LowerChars \/ c = "_"

LowerOf(c) ==
    CASE c = "A" -> "a" [] c = "B" -> "b" [] c = "C" -> "c" [] c = "D" -> "d"
      [] c = "E" -> "e" [] c = "F" -> "f" [] c = "G" -> "g" [] c = "H" -> "h"
      [] c = "I" -> "i" [] c = "J" -> "j" [] c = "K" -> "k" [] c = "L" -> "l"
      [] c = "M" -> "m" [] c = "N" -> "n" [] c = "O" -> "o" [] c = "P" -> "p"
      [] c = "Q" -> "q" [] c = "R" -> "r" [] c = "S" -> "s" [] c = "T" -> "t"
      [] c = "U" -> "u" [] c = "V" -> "v" [] c = "W" -> "w" [] c = "X" -> "x"
      [] c = "Y" -> "y" [] c = "Z" -> "z" [] OTHER -> c

\* str::to_lowercase
RECURSIVE ToLowercase(_)
ToLowercase(s) ==
    IF Len(s) = 0 THEN ""
    ELSE LowerOf(Ch(s, 1)) \o ToLowercase(SubSeq(s, 2, Len(s)))

\* str::replace(" ", "_")
RECURSIVE ReplaceSpaces(_)
ReplaceSpaces(s) ==
    IF Len(s) = 0 THEN ""
    ELSE (IF Ch(s, 1) = " " THEN "_" ELSE Ch(s, 1))
             \o ReplaceSpaces(SubSeq(s, 2, Len(s)))

\* the length of the run of \w characters of s that starts at index i
RECURSIVE WordRun(_, _)
WordRun(s, i) ==
    IF i <= Len(s) /\ IsWord(Ch(s, i)) THEN 1 + WordRun(s, i + 1) ELSE 0

\* the index of the last character of the match of \d{4}-\w+- that starts
\* at index i of s, 0 when none starts there ('-' is no \w character, so
\* \w+ takes the whole run)
MatchEnd(s, i) ==
    IF /\ i + 6 <= Len(s)
       /\ \A d \in 0..3 : IsDigit(Ch(s, i + d))
       /\ Ch(s, i + 4) = "-"
    THEN LET run == WordRun(s, i + 5)
         IN  IF run >= 1 /\ i + 5 + run <= Len(s) /\ Ch(s, i + 5 + run) = "-"
             THEN i + 5 + run
             ELSE 0
    ELSE 0

\* mutant: only the first match is removed, as Regex::replace would
RECURSIVE StripOnce(_, _)
StripOnce(s, i) ==
    IF i > Len(s) THEN ""
    ELSE IF MatchEnd(s, i) > 0 THEN SubSeq(s, MatchEnd(s, i) + 1, Len(s))
    ELSE Ch(s, i) \o StripOnce(s, i + 1)

\* Regex::replace_all(s, "") from index i on: every match, leftmost first
\* and not overlapping, is removed
RECURSIVE StripFrom(_, _)
StripFrom(s, i) ==
    IF i > Len(s) THEN ""
    ELSE IF MatchEnd(s, i) > 0 THEN StripFrom(s, MatchEnd(s, i) + 1)
    ELSE Ch(s, i) \o StripFrom(s, i + 1)

\* HashMap::insert: an entry under the same key is replaced
Insert(m, key, v) ==
    [x \in DOMAIN m \cup {key} |-> IF x = key THEN v ELSE m[x]]

EmptyMap == [x \in {} |-> NoEvent]

\* Team::events, the first loop: the event_key of every record, or a panic
EventKeysOf(arr) ==
    IF \E j \in 1..Len(arr) : Get(arr[j], "event_key").t # "str" THEN Panic
    ELSE Ok([j \in 1..Len(arr) |-> Get(arr[j], "event_key").s])

\* mutant: an event whose name cannot be read is left out and the loop goes on
RECURSIVE EventsFromSkip(_, _, _, _, _)
EventsFromSkip(keys, j, emap, log, c) ==
    IF j > Len(keys) THEN [out |-> Ok(emap), log |-> log]
    ELSE LET event_key == keys[j]
             ev == EventNew(event_key, c)
             target == TargetEvent(event_key)
             raw_key == EventNameOf(Request(target))
         IN  IF Failed(raw_key)
             THEN EventsFromSkip(keys, j + 1, emap, Append(log, target), c)
             ELSE LET key == ToLowercase(ReplaceSpaces(raw_key.v))
                      raw_key_right == StripFrom(event_key, 1)
                      new_key ==
                          IF key \in DOMAIN emap
                          THEN key \o "_" \o ToLowercase(raw_key_right)
                          ELSE key
                  IN  EventsFromSkip(keys, j + 1, Insert(emap, new_key, ev),
                                     Append(log, target), c)

\* Team::events, the second loop from index j on: one GET for the name of
\* each event
RECURSIVE EventsFrom(_, _, _, _, _)
EventsFrom(keys, j, emap, log, c) ==
    IF j > Len(keys) THEN [out |-> Ok(emap), log |-> log]
    ELSE LET event_key == keys[j]
             ev == EventNew(event_key, c)
             target == TargetEvent(event_key)
             raw_key == EventNameOf(Request(target))
         IN  IF Failed(raw_key)
             THEN [out |-> Panic, log |-> Append(log, target)]
             ELSE LET key == ToLowercase(ReplaceSpaces(raw_key.v))
                      raw_key_right == StripFrom(event_key, 1)
                      new_key ==
                          IF key \in DOMAIN emap
                          THEN key \o "_" \o ToLowercase(raw_key_right)
                          ELSE key
                  IN  EventsFrom(keys, j + 1, Insert(emap, new_key, ev),
                                 Append(log, target), c)

\* Team::events: the outcome and the targets requested
TeamEventsOf(self, season) ==
    LET target == TargetEvents(self.team_number, season)
        resp == Request(target)
    IN  IF ~IsJson(resp) THEN [out |-> Panic, log |-> <<target>>]
        ELSE IF resp.t # "arr" THEN [out |-> Panic, log |-> <<target>>]
        ELSE IF Failed(EventKeysOf(resp.a))
             THEN [out |-> Panic, log |-> <<target>>]
             ELSE EventsFrom(EventKeysOf(resp.a).v, 1, EmptyMap, <<target>>,
                             self.client)

---------------------------------------------------------------------------
(* Calls                                                                   *)

NoCall == [op |-> "none"]

\* one finished call: the accessor, the entity it was called on, its
\* arguments, its outcome and the targets it requested, in order
Call(op, self, args, out, log) ==
    [op |-> op, self |-> self, args |-> args, out |-> out, log |-> log]

\* Season::value(season)
SeasonValueCall(s) ==
    /\ last' = Call("Season::value", s, <<>>, Ok(SeasonValue(s)), <<>>)
    /\ UNCHANGED <<remote, client, team, event>>

\* Season::value_of(s)
SeasonValueOfCall(s) ==
    /\ last' = Call("Season::value_of", "Season", <<s>>, SeasonValueOf(s), <<>>)
    /\ UNCHANGED <<remote, client, team, event>>

\* Team::properties
TeamProperties ==
    /\ team # NoTeam
    /\ LET target == TargetTeam(team.team_number)
       IN  last' = Call("Team::properties", team, <<>>,
                        TeamPropertiesOf(Request(target)), <<target>>)
    /\ UNCHANGED <<remote, client, team, event>>

\* Event::properties
EventProperties ==
    /\ event # NoEvent
    /\ LET target == TargetEvent(event.event_key)
       IN  last' = Call("Event::properties", event, <<>>,
                        EventPropertiesOf(Request(target)), <<target>>)
    /\ UNCHANGED <<remote, client, team, event>>

\* Client::team
ClientTeam(n) ==
    /\ team' = TeamNew(n, client)
    /\ UNCHANGED <<remote, client, event, last>>

\* Event::new
NewEvent(key) ==
    /\ event' = EventNew(key, client)
    /\ UNCHANGED <<remote, client, team, last>>

\* Client::api_version
ApiVersion ==
    /\ last' = Call("Client::api_version", client, <<>>,
                    ApiVersionOf(Request(TargetRoot)), <<TargetRoot>>)
    /\ UNCHANGED <<remote, client, team, event>>

\* Team::wins, Team::losses, Team::ties
TeamWlt(field) ==
    /\ team # NoTeam
    /\ LET target == TargetWlt(team.team_number)
       IN  last' = Call("Team::" \o field, team, <<>>,
                        WltOf(Request(target), field), <<target>>)
    /\ UNCHANGED <<remote, client, team, event>>

\* Team::season_wins, ..., Team::tiebreaker_points
TeamSeasonData(acc, season) ==
    /\ team # NoTeam
    /\ LET target == TargetResults(team.team_number, season)
       IN  last' = Call("Team::" \o acc, team, <<season>>,
                        Unwrap(GetSeasonDataOf(Request(target), SeasonQuery[acc])),
                        <<target>>)
    /\ UNCHANGED <<remote, client, team, event>>

\* Team::events
TeamEvents(season) ==
    /\ team # NoTeam
    /\ LET r == TeamEventsOf(team, season)
       IN  last' = Call("Team::events", team, <<season>>, r.out, r.log)
    /\ UNCHANGED <<remote, client, team, event>>

\* the caller takes an event out of the map Team::events returned
TakeEvent ==
    /\ last.op = "Team::events"
    /\ last.out.k = "Ok"
    /\ \E name \in DOMAIN last.out.v : event' = last.out.v[name]
    /\ UNCHANGED <<remote, client, team, last>>

\* Event::name
EventName ==
    /\ event # NoEvent
    /\ LET target == TargetEvent(event.event_key)
       IN  last' = Call("Event::name", event, <<>>,
                        EventNameOf(Request(target)), <<target>>)
    /\ UNCHANGED <<remote, client, team, event>>

\* Event::rank, ..., Event::tiebreaker_points
EventRankingsData(acc, team_number) ==
    /\ event # NoEvent
    /\ LET target == TargetRankings(event.event_key)
       IN  last' = Call("Event::" \o acc, event, <<team_number>>,
                        Unwrap(GetRankingsDataOf(Request(target), team_number,
                                                 RankingsQuery[acc])),
                        <<target>>)
    /\ UNCHANGED <<remote, client, team, event>>

---------------------------------------------------------------------------
(* The remote: what the API answers                                        *)

\* the team numbers Event's ranking accessors are asked about
RankTeams == {0, 200}

Obj1(k1, v1) == JObj([key \in {k1} |-> v1])

Obj2(k1, v1, k2, v2) == JObj([key \in {k1, k2} |-> IF key = k1 THEN v1 ELSE v2])

VersionBody == Obj1("version", JStr("3.7.0"))

WltBody ==
    JArr(<<JObj([wins |-> JInt(10), losses |-> JInt(4), ties |-> JInt(1)])>>)

TeamBody ==
    JArr(<<JObj([team_number |-> JInt(16405), rookie_year |-> JInt(2019),
                 last_active |-> JStr("1920"), website |-> JNull])>>)

ResultRecord(n) ==
    JObj([wins |-> JInt(n), losses |-> JInt(1), ties |-> JInt(0),
          opr |-> JFloat(n * Unit + 125), np_opr |-> JFloat(n * Unit + 375),
          ranking_points |-> JInt(n), qualifying_points |-> JInt(2 * n),
          tie_breaker_points |-> JInt(3 * n)])

ResultsBody == JArr(<<ResultRecord(1), Obj1("wins", JInt(2))>>)

EventRecord(key) == Obj1("event_key", JStr(key))

EventsBody == JArr(<<EventRecord("1920-TX-AAA"), EventRecord("1920-TX-BBB")>>)

EventNameDefault(key) ==
    CASE key = "1920-TX-AAA" -> "Trinity River Qualifier"
      [] OTHER -> "State Championship"

EventBody(key) ==
    JArr(<<JObj([event_key |-> JStr(key),
                 event_name |-> JStr(EventNameDefault(key)),
                 is_public |-> JBool(TRUE)])>>)

RankingRecord(n, rank) ==
    JObj([team |-> Obj1("team_number", JInt(n)), rank |-> JInt(rank),
          rank_change |-> JInt(0), wins |-> JInt(3), losses |-> JInt(1),
          ties |-> JInt(0), opr |-> JFloat(n + 125), np_opr |-> JFloat(n),
          highest_qual_score |-> JInt(90), ranking_points |-> JFloat(2500),
          qualifying_points |-> JInt(6), tie_breaker_points |-> JInt(123)])

RankingsBody ==
    JArr(<<Obj2("team", Obj1("team_number", JInt(100)), "rank", JInt(1)),
           RankingRecord(200, 2)>>)

TeamTargets ==
    [wlt |-> {TargetWlt(n) : n \in TeamNumbers},
     team |-> {TargetTeam(n) : n \in TeamNumbers},
     results |-> {TargetResults(n, s) : n \in TeamNumbers, s \in Seasons},
     events |-> {TargetEvents(n, s) : n \in TeamNumbers, s \in Seasons}]

\* the API as the tests of the repository meet it
DefaultRemote ==
    [target \in {TargetRoot} |-> VersionBody]
    @@ [target \in TeamTargets.wlt |-> WltBody]
    @@ [target \in TeamTargets.team |-> TeamBody]
    @@ [target \in TeamTargets.results |-> ResultsBody]
    @@ [target \in TeamTargets.events |-> EventsBody]
    @@ [target \in {TargetEvent(key) : key \in EventKeys} |->
            EventBody(SubSeq(target, 8, Len(target)))]
    @@ [target \in {TargetRankings(key) : key \in EventKeys} |-> RankingsBody]

\* the default remote with one target answering body
With(target, body) == [DefaultRemote EXCEPT ![target] = body]

\* a remote that knows the given targets only, and answers body for each
Only(targets, body) == [target \in targets |-> body]

\* sequences over S of length at most n
RECURSIVE SeqsUpTo(_, _)
SeqsUpTo(S, n) ==
    IF n = 0 THEN {<<>>}
    ELSE SeqsUpTo(S, n - 1)
         \cup {Append(q, x) : q \in SeqsUpTo(S, n - 1), x \in S}

\* responses that are no array of anything
NoArrayBodies == {TransportErr, BadJson, JNull, NotFound, JStr("Foo")}

---------------------------------------------------------------------------
(* Season::value, Season::value_of and the last_active entry               *)

MaxCodeLen == 4

\* the digits of the four season codes
CodeChars == {"0", "1", "2", "6", "7", "8", "9"}

RECURSIVE StringsUpTo(_, _)
StringsUpTo(S, n) ==
    IF n = 0 THEN {""}
    ELSE StringsUpTo(S, n - 1)
         \cup {s \o c : s \in StringsUpTo(S, n - 1), c \in S}

SeasonStrings ==
    StringsUpTo(CodeChars, MaxCodeLen)
    \cup {"null", "true", "SkyStone", "Season::SkyStone", " 1920", "1920 ",
          "1920.0", "+1920"}

\* values the API may send under last_active
LastActiveValues ==
    {JStr(s) : s \in {"1920", "1819", "1718", "1617", "1921", "2019", "null",
                      "Season::SkyStone", ""}}
    \cup {JInt(i) : i \in {1920, 1819, 1718, 1617, 1516, 0, -1920}}
    \cup {JFloat(1920 * Unit), JNull, JBool(TRUE), JArr(<<>>), JObj(<<>>)}

InitSeason ==
    /\ client \in {ClientNew(key) : key \in ApiKeys}
    /\ \E n \in TeamNumbers, v \in LastActiveValues :
          /\ team = TeamNew(n, client)
          /\ remote = Only({TargetTeam(n)}, JArr(<<Obj1("last_active", v)>>))
    /\ event = NoEvent
    /\ last = NoCall

\* one call from each drawn state: no accessor keeps anything between calls
First == last = NoCall

NextSeason ==
    \/ First /\ \E s \in Seasons : SeasonValueCall(s)
    \/ First /\ \E s \in SeasonStrings : SeasonValueOfCall(s)
    \/ First /\ TeamProperties

SpecSeason == InitSeason /\ [][NextSeason]_vars

---------------------------------------------------------------------------
(* The property accessors on every small response                          *)

MaxProps == 3

PropKeys == {"rookie_year", "nickname", "x", "last_active"}

PropValues ==
    {JStr("Foo"), JStr("1920"), JInt(2019), JInt(1617), JInt(-5),
     JFloat(1718 * Unit), JNull, JBool(TRUE), JBool(FALSE), JArr(<<>>),
     Obj1("x", JNull)}

PropObjects ==
    UNION {[keys -> PropValues] :
              keys \in {ks \in SUBSET PropKeys : Cardinality(ks) <= MaxProps}}

PropBodies ==
    NoArrayBodies
    \cup {JArr(<<>>), JArr(<<JStr("Foo")>>), JArr(<<JArr(<<>>)>>),
          JArr(<<JNull, Obj1("x", JNull)>>)}
    \cup {JArr(<<JObj(o)>>) : o \in PropObjects}
    \cup {JArr(<<Obj1("x", v), JNull>>) : v \in PropValues}

InitProps ==
    /\ client \in {ClientNew(key) : key \in ApiKeys}
    /\ \E n \in TeamNumbers, key \in EventKeys, body \in PropBodies :
          /\ team = TeamNew(n, client)
          /\ event = EventNew(key, client)
          /\ remote = Only({TargetTeam(n), TargetEvent(key)}, body)
    /\ last = NoCall

NextProps ==
    \/ First /\ TeamProperties
    \/ First /\ EventProperties

SpecProps == InitProps /\ [][NextProps]_vars

---------------------------------------------------------------------------
(* Sum over matches on every small response                                *)

MaxResults == 3

\* the values drawn are multiples of 1/8, which an f64 holds exactly: their
\* sums and the products by 100.0 are exact in f64 as they are here
SumValues ==
    {JInt(1), JInt(-2), JFloat(125), JFloat(-125), JFloat(250)}

SumRecords ==
    {JNull, Obj1("losses", JInt(1)), Obj1("wins", JStr("3"))}
    \cup {Obj2("wins", v, "losses", JInt(1)) : v \in SumValues}

SumBodies ==
    NoArrayBodies
    \cup {Obj1("wins", JInt(1))}
    \cup {JArr(a) : a \in SeqsUpTo(SumRecords, MaxResults)}

InitSum ==
    /\ client \in {ClientNew(key) : key \in ApiKeys}
    /\ \E n \in TeamNumbers, body \in SumBodies :
          /\ team = TeamNew(n, client)
          /\ remote = Only({TargetResults(n, s) : s \in Seasons}, body)
    /\ event = NoEvent
    /\ last = NoCall

NextSum ==
    First /\ \E acc \in DOMAIN SeasonQuery, s \in Seasons : TeamSeasonData(acc, s)

SpecSum == InitSum /\ [][NextSum]_vars

---------------------------------------------------------------------------
(* Find by team in rankings on every small response                        *)

MaxRankings == 2

\* what a ranking record may hold under team
RankTeamValues ==
    {JNull, Obj1("team_number", JStr("200")), Obj1("team_number", JInt(100)),
     Obj1("team_number", JInt(200)), Obj1("team_number", JFloat(200500)),
     Obj1("team_number", JInt(-1))}

RankRecords ==
    {JNull}
    \cup {Obj1("team", Obj1("team_number", JInt(200)))}
    \cup {Obj2("team", t, "rank", v) :
             t \in RankTeamValues, v \in {JInt(1), JInt(2), JStr("1")}}

RankBodies ==
    NoArrayBodies
    \cup {JArr(a) : a \in SeqsUpTo(RankRecords, MaxRankings)}

InitRank ==
    /\ client \in {ClientNew(key) : key \in ApiKeys}
    /\ \E key \in EventKeys, body \in RankBodies :
          /\ event = EventNew(key, client)
          /\ remote = Only({TargetRankings(key)}, body)
    /\ team = NoTeam
    /\ last = NoCall

NextRank ==
    First /\ \E acc \in DOMAIN RankingsQuery, n \in RankTeams :
                 EventRankingsData(acc, n)

SpecRank == InitRank /\ [][NextRank]_vars

---------------------------------------------------------------------------
(* Properties                                                              *)

\* the response the last call received for its first request
Received == Request(last.log[1])

HasFirstObject ==
    /\ IsJson(Received)
    /\ Received.t = "arr"
    /\ Len(Received.a) > 0
    /\ Received.a[1].t = "obj"

FirstObject == Received.a[1].o

IsPropertiesCall == last.op \in {"Team::properties", "Event::properties"}

SeasonCodes == {"1920", "1819", "1718", "1617"}

CodeOfSeason ==
    [SkyStone |-> 1920, RoverRuckus |-> 1819, RelicRecovery |-> 1718,
     VelocityVortex |-> 1617]

LabelOfCode(code) ==
    CASE code = "1920" -> "Season::SkyStone"
      [] code = "1819" -> "Season::RoverRuckus"
      [] code = "1718" -> "Season::RelicRecovery"
      [] code = "1617" -> "Season::VelocityVortex"

\* the decimal string of an integer
Decimal(i) == IF i < 0 THEN "-" \o U64ToString(-i) ELSE U64ToString(i)

IsIntegral(v) == v.t = "num" /\ v.kind \in {"PosInt", "NegInt"}

\* the coercion of one property value: a string is itself, an integral
\* number its decimal string, null is "null", a boolean "true" or "false"
Coerced(v) ==
    CASE v.t = "str" -> v.s
      [] v.t = "num" -> Decimal(v.n \div Unit)
      [] v.t = "null" -> "null"
      [] v.t = "bool" -> IF v.b THEN "true" ELSE "false"

\* C1: Season::value maps SkyStone, RoverRuckus, RelicRecovery and
\* VelocityVortex to 1920, 1819, 1718 and 1617, and Season::value_of of the
\* decimal string of a season's value returns that season.
C1_SeasonRoundTrip ==
    /\ last.op = "Season::value" =>
           /\ last.out.k = "Ok"
           /\ last.out.v = CodeOfSeason[last.self]
    /\ last.op = "Season::value_of" =>
           \A s \in Seasons :
               last.args[1] = Decimal(SeasonValue(s)) =>
                   last.out.k = "Ok" /\ last.out.v = s

C1_Witness ==
    /\ last.op = "Season::value_of"
    /\ last.args[1] = Decimal(SeasonValue("VelocityVortex"))
    /\ last.out.k = "Ok"
    /\ last.out.v = "VelocityVortex"

\* a last_active value that Team::properties normalises to a string that is
\* no season code
IsUnknownSeason(v) ==
    \/ v.t = "null"
    \/ v.t = "str" /\ v.s \notin SeasonCodes
    \/ IsU64(v) /\ Decimal(AsU64(v)) \notin SeasonCodes

\* C2: Season::value_of of any string other than "1920", "1819", "1718",
\* "1617" fails and returns no Season, and Team::properties fails when
\* last_active normalises to such a string (null normalises to "null").
C2_UnknownSeasonFails ==
    /\ last.op = "Season::value_of" /\ last.args[1] \notin SeasonCodes =>
           Failed(last.out)
    /\ ( /\ last.op = "Team::properties"
         /\ HasFirstObject
         /\ "last_active" \in DOMAIN FirstObject
         /\ IsUnknownSeason(FirstObject["last_active"]) ) =>
           Failed(last.out)

C2_Witness ==
    /\ last.op = "Team::properties"
    /\ HasFirstObject
    /\ DOMAIN FirstObject = {"last_active"}
    /\ FirstObject["last_active"].t = "null"
    /\ Failed(last.out)

\* C3: in Team::properties and in Event::properties every property value is
\* coerced: a string to itself, an integral number to its decimal string,
\* null to "null", a boolean to "true" or "false" (last_active in
\* Team::properties, which C4 is about, set aside).
C3_EveryValueCoerced ==
    ( /\ IsPropertiesCall
      /\ HasFirstObject
      /\ \A key \in DOMAIN FirstObject :
             FirstObject[key].t \in {"str", "null", "bool"}
                 \/ IsIntegral(FirstObject[key])
      /\ last.op = "Team::properties" => "last_active" \notin DOMAIN FirstObject )
    => /\ last.out.k = "Ok"
       /\ last.out.v = [key \in DOMAIN FirstObject |-> Coerced(FirstObject[key])]

\* a last_active value that is one of the four season codes, as a string or
\* as the number
IsSeasonCode(v) ==
    \/ v.t = "str" /\ v.s \in SeasonCodes
    \/ IsU64(v) /\ Decimal(AsU64(v)) \in SeasonCodes

\* C4: when the object has last_active with one of the four season codes,
\* as a string or as a number, Team::properties stores the season's label
\* under last_active, not the digits, and every other key keeps its coerced
\* value; the call succeeds when every other value is a string, an unsigned
\* integer or null.
C4_LastActiveLabel ==
    ( /\ last.op = "Team::properties"
      /\ HasFirstObject
      /\ "last_active" \in DOMAIN FirstObject
      /\ IsSeasonCode(FirstObject["last_active"]) )
    => /\ (\A key \in DOMAIN FirstObject :
               FirstObject[key].t \in {"str", "null"} \/ IsU64(FirstObject[key]))
           => last.out.k = "Ok"
       /\ last.out.k = "Ok" =>
              /\ DOMAIN last.out.v = DOMAIN FirstObject
              /\ last.out.v["last_active"]
                     = LabelOfCode(Coerced(FirstObject["last_active"]))
              /\ last.out.v["last_active"] # Coerced(FirstObject["last_active"])
              /\ \A key \in DOMAIN FirstObject \ {"last_active"} :
                     last.out.v[key] = Coerced(FirstObject[key])

C4_Witness ==
    /\ last.op = "Team::properties"
    /\ HasFirstObject
    /\ DOMAIN FirstObject = {"last_active", "rookie_year", "nickname"}
    /\ FirstObject["last_active"] = JInt(1617)
    /\ last.out.k = "Ok"
    /\ last.out.v["last_active"] = "Season::VelocityVortex"
    /\ last.out.v["rookie_year"] = "2019"
    /\ last.out.v["nickname"] = "Foo"

\* C9: Team::properties and Event::properties fail and return no map when
\* the body is no JSON array, the array is empty, its first element is no
\* object, or a property value is a nested array or object; every map they
\* return holds strings coerced from a string, a number, a boolean or null.
C9_PropertiesFailOnShape ==
    IsPropertiesCall =>
        /\ ( \/ ~HasFirstObject
             \/ \E key \in DOMAIN FirstObject :
                    FirstObject[key].t \in {"arr", "obj"} )
           => Failed(last.out)
        /\ last.out.k = "Ok" =>
               \A key \in DOMAIN last.out.v :
                   /\ last.out.v[key] \in STRING
                   /\ key \in DOMAIN FirstObject
                   /\ FirstObject[key].t \in {"str", "num", "bool", "null"}

C9_Witness ==
    /\ last.op = "Event::properties"
    /\ HasFirstObject
    /\ \E key \in DOMAIN FirstObject : FirstObject[key].t = "arr"
    /\ Failed(last.out)

---------------------------------------------------------------------------
(* Sum over matches                                                        *)

IsSeasonDataCall ==
    \E acc \in DOMAIN SeasonQuery : last.op = "Team::" \o acc

\* the field the last call of a season accessor asked for
AskedSeasonField ==
    SeasonQuery[CHOOSE acc \in DOMAIN SeasonQuery : last.op = "Team::" \o acc]

IsArray(r) == IsJson(r) /\ r.t = "arr"

\* record j of the array received has a number under field
HasNumber(j, field) ==
    /\ Received.a[j].t = "obj"
    /\ field \in DOMAIN Received.a[j].o
    /\ Received.a[j].o[field].t = "num"

\* the sum of field over the first j records
RECURSIVE SumOfFirst(_, _)
SumOfFirst(j, field) ==
    IF j = 0 THEN 0 ELSE SumOfFirst(j - 1, field) + Received.a[j].o[field].n

Abs(x) == IF x < 0 THEN -x ELSE x

\* r is x rounded to 2 decimal places, halves away from zero (x and r in
\* 1/Unit)
IsRounded2(r, x) ==
    /\ r % (Unit \div 100) = 0
    /\ \/ 2 * Abs(x - r) < Unit \div 100
       \/ 2 * Abs(x - r) = Unit \div 100 /\ Abs(r) > Abs(x)

\* C5: when every record of the array has a number under the requested
\* field, get_season_data returns round(S * 100) / 100 for S the sum of the
\* field over every record, halves rounded away from zero; 0 for the empty
\* array.
C5_SumRounded ==
    ( /\ IsSeasonDataCall
      /\ IsArray(Received)
      /\ \A j \in 1..Len(Received.a) : HasNumber(j, AskedSeasonField) )
    => /\ last.out.k = "Ok"
       /\ IsRounded2(last.out.v, SumOfFirst(Len(Received.a), AskedSeasonField))
       /\ Len(Received.a) = 0 => last.out.v = 0

\* -0.125 - 0.125 + 0.125 = -0.125 is returned as -0.13
C5_Witness ==
    /\ last.op = "Team::season_wins"
    /\ IsArray(Received)
    /\ Len(Received.a) = 3
    /\ \A j \in 1..3 : HasNumber(j, "wins")
    /\ SumOfFirst(3, "wins") = -125
    /\ last.out.k = "Ok"
    /\ last.out.v = -130

\* C8: get_season_data fails, with no partial sum and no default, when the
\* body is no array, when a record lacks the requested field, and when a
\* record's value for it is no number.
C8_SumFailsOnShape ==
    ( /\ IsSeasonDataCall
      /\ \/ ~IsArray(Received)
         \/ \E j \in 1..Len(Received.a) : ~HasNumber(j, AskedSeasonField) )
    => Failed(last.out)

C8_Witness ==
    /\ last.op = "Team::season_wins"
    /\ IsArray(Received)
    /\ Len(Received.a) = 2
    /\ HasNumber(1, "wins")
    /\ Received.a[2].t = "obj"
    /\ "wins" \notin DOMAIN Received.a[2].o
    /\ Failed(last.out)

---------------------------------------------------------------------------
(* Find by team in rankings                                                *)

IsRankingsCall ==
    \E acc \in DOMAIN RankingsQuery : last.op = "Event::" \o acc

AskedRankingsField ==
    RankingsQuery[CHOOSE acc \in DOMAIN RankingsQuery :
                      last.op = "Event::" \o acc]

AskedTeam == last.args[1]

\* record j of the array received has a number under team.team_number
HasTeamNumber(j) ==
    /\ Received.a[j].t = "obj"
    /\ "team" \in DOMAIN Received.a[j].o
    /\ Received.a[j].o["team"].t = "obj"
    /\ "team_number" \in DOMAIN Received.a[j].o["team"].o
    /\ Received.a[j].o["team"].o["team_number"].t = "num"

TeamNumberOf(j) == Received.a[j].o["team"].o["team_number"].n

\* record j is a record of the team asked for
IsTeam(j) == HasTeamNumber(j) /\ TeamNumberOf(j) = AskedTeam * Unit

\* the team number of record j, converted to u32, is the team asked for:
\* the fraction is dropped, a negative number is 0
IsTeamAsU32(j) ==
    /\ HasTeamNumber(j)
    /\ \/ AskedTeam * Unit <= TeamNumberOf(j)
          /\ TeamNumberOf(j) < (AskedTeam + 1) * Unit
       \/ AskedTeam = 0 /\ TeamNumberOf(j) < 0

\* a negative or fractional team number
IsOddTeamNumber(j) ==
    HasTeamNumber(j) /\ (TeamNumberOf(j) < 0 \/ TeamNumberOf(j) % Unit # 0)

\* the records the scan can return from
Hits == {j \in 1..Len(Received.a) :
            IsTeamAsU32(j) /\ HasNumber(j, AskedRankingsField)}

ExactHits == {j \in 1..Len(Received.a) :
                 IsTeam(j) /\ HasNumber(j, AskedRankingsField)}

Min(S) == CHOOSE x \in S : \A y \in S : x <= y

\* C6 as claimed: when the array has a record of the requested team with a
\* number under the requested field, the value of the first such record is
\* returned, never a value of another team's record.
C6_FirstMatchReturned ==
    (IsRankingsCall /\ IsArray(Received) /\ ExactHits # {})
    => /\ last.out.k = "Ok"
       /\ last.out.v = Received.a[Min(ExactHits)].o[AskedRankingsField].n

\* C6 amended: when the array has a record whose team number, converted to
\* u32, is the requested one and that has a number under the requested
\* field, and every record before the first such record has a numeric team
\* number, the value of the first such record is returned.
C6_FirstHitReturned ==
    ( /\ IsRankingsCall
      /\ IsArray(Received)
      /\ Hits # {}
      /\ \A i \in 1..(Min(Hits) - 1) : HasTeamNumber(i) )
    => /\ last.out.k = "Ok"
       /\ last.out.v = Received.a[Min(Hits)].o[AskedRankingsField].n

\* the first record of team 200 has no number under rank, the second has
C6_Witness ==
    /\ last.op = "Event::rank"
    /\ AskedTeam = 200
    /\ IsArray(Received)
    /\ Len(Received.a) = 2
    /\ IsTeam(1) /\ ~HasNumber(1, "rank")
    /\ IsTeam(2) /\ HasNumber(2, "rank")
    /\ last.out.k = "Ok"
    /\ last.out.v = 2 * Unit

---------------------------------------------------------------------------
(* Every accessor, once, on a remote whose event list varies               *)

MaxEvents == 3

EventRecords == {EventRecord(key) : key \in EventKeys} \cup {JNull}

EventsBodies ==
    NoArrayBodies \cup {JArr(a) : a \in SeqsUpTo(EventRecords, MaxEvents)}

\* what the API may answer for one event
EventBodies(key) ==
    {EventBody(key), TransportErr, JArr(<<>>),
     JArr(<<Obj1("event_name", JStr("State Championship"))>>)}

\* the targets a caller that holds team n and the event of key can reach in
\* season SkyStone
TargetsOf(n, key) ==
    {TargetRoot, TargetWlt(n), TargetTeam(n), TargetResults(n, "SkyStone"),
     TargetEvents(n, "SkyStone"), TargetRankings(key)}
    \cup {TargetEvent(k) : k \in EventKeys}

\* the default remote on these targets, with the event list and the answer
\* for one event replaced, or with one target failing
CallRemotes(n, key) ==
    {[target \in TargetsOf(n, key) |->
         IF target = TargetEvents(n, "SkyStone") THEN list
         ELSE IF target = TargetEvent("1920-TX-BBB") THEN body
         ELSE DefaultRemote[target]] :
        list \in EventsBodies, body \in EventBodies("1920-TX-BBB")}
    \cup {[target \in TargetsOf(n, key) |->
              IF target = bad THEN body ELSE DefaultRemote[target]] :
             bad \in TargetsOf(n, key), body \in {TransportErr, JNull}}

InitCalls ==
    /\ client \in {ClientNew(key) : key \in ApiKeys}
    /\ \E n \in TeamNumbers, key \in EventKeys :
          /\ team = TeamNew(n, client)
          /\ event = EventNew(key, client)
          /\ remote \in CallRemotes(n, key)
    /\ last = NoCall

NextCalls ==
    \/ First /\ ApiVersion
    \/ First /\ \E field \in {"wins", "losses", "ties"} : TeamWlt(field)
    \/ First /\ TeamProperties
    \/ First /\ \E acc \in DOMAIN SeasonQuery, s \in Seasons :
                    TeamSeasonData(acc, s)
    \/ First /\ \E s \in Seasons : TeamEvents(s)
    \/ First /\ EventName
    \/ First /\ EventProperties
    \/ First /\ \E acc \in DOMAIN RankingsQuery, n \in RankTeams :
                    EventRankingsData(acc, n)

SpecCalls == InitCalls /\ [][NextCalls]_vars

---------------------------------------------------------------------------
(* The library as its caller drives it                                     *)

Remotes ==
    {DefaultRemote,
     With(TargetEvent("1920-TX-BBB"), TransportErr),
     [target \in DOMAIN DefaultRemote |->
         IF target \in TeamTargets.events
         THEN JArr(<<EventRecord("1920-TX-BBB"), EventRecord("1920-TX-AAA"),
                     EventRecord("1920-CMP-AAA")>>)
         ELSE DefaultRemote[target]]}

Init ==
    /\ client \in {ClientNew(key) : key \in ApiKeys}
    /\ team = NoTeam
    /\ event = NoEvent
    /\ remote \in Remotes
    /\ last = NoCall

Next ==
    \/ \E n \in TeamNumbers : ClientTeam(n)
    \/ \E key \in EventKeys : NewEvent(key)
    \/ \E s \in Seasons : SeasonValueCall(s)
    \/ \E s \in SeasonCodes \cup {"null"} : SeasonValueOfCall(s)
    \/ ApiVersion
    \/ \E field \in {"wins", "losses", "ties"} : TeamWlt(field)
    \/ TeamProperties
    \/ \E acc \in DOMAIN SeasonQuery, s \in Seasons : TeamSeasonData(acc, s)
    \/ \E s \in Seasons : TeamEvents(s)
    \/ TakeEvent
    \/ EventName
    \/ EventProperties
    \/ \E acc \in DOMAIN RankingsQuery, n \in RankTeams :
           EventRankingsData(acc, n)

Spec == Init /\ [][Next]_vars

---------------------------------------------------------------------------
(* Requests per call                                                       *)

IsAccessorCall == last.op \notin {"none", "Season::value", "Season::value_of"}

\* C10 as claimed: every accessor call sends exactly one GET, whatever the
\* response.
C10_OneRequestPerCall == IsAccessorCall => Len(last.log) = 1

\* the event keys of the list Team::events received, when every record of
\* it has one
ListedKeys ==
    [j \in 1..Len(Received.a) |-> Received.a[j].o["event_key"].s]

HasListedKeys ==
    /\ IsArray(Received)
    /\ \A j \in 1..Len(Received.a) :
           /\ Received.a[j].t = "obj"
           /\ "event_key" \in DOMAIN Received.a[j].o
           /\ Received.a[j].o["event_key"].t = "str"

\* the name of the event behind target cannot be read
NameFails(target) ==
    LET r == Request(target)
    IN  ~( /\ IsArray(r)
           /\ Len(r.a) > 0
           /\ r.a[1].t = "obj"
           /\ "event_name" \in DOMAIN r.a[1].o
           /\ r.a[1].o["event_name"].t = "str" )

\* C10 amended: every accessor but Team::events sends exactly one GET,
\* whatever the response; Team::events sends one GET for the list and then
\* one GET per listed event, in the order of the list, up to and including
\* the first event whose name cannot be read.
C10_RequestsPerCall ==
    IsAccessorCall =>
        /\ last.op # "Team::events" => Len(last.log) = 1
        /\ last.op = "Team::events" =>
               /\ last.log[1] = TargetEvents(last.self.team_number,
                                             last.args[1])
               /\ ~HasListedKeys => Len(last.log) = 1
               /\ HasListedKeys =>
                      /\ Len(last.log) <= 1 + Len(Received.a)
                      /\ \A j \in 1..(Len(last.log) - 1) :
                             /\ last.log[j + 1] = TargetEvent(ListedKeys[j])
                             /\ NameFails(last.log[j + 1])
                                    <=> (Failed(last.out) /\ j + 1 = Len(last.log))
                      /\ last.out.k = "Ok" =>
                             Len(last.log) = 1 + Len(Received.a)
                      /\ Failed(last.out) => Len(last.log) > 1

\* three events listed, the name of the second cannot be read: three GETs
C10_Witness ==
    /\ last.op = "Team::events"
    /\ HasListedKeys
    /\ Len(Received.a) = 3
    /\ ~NameFails(TargetEvent(ListedKeys[1]))
    /\ NameFails(TargetEvent(ListedKeys[2]))
    /\ Failed(last.out)
    /\ Len(last.log) = 3

---------------------------------------------------------------------------
(* Team::events on every small event list                                  *)

MaxListed == 3

\* event keys a list may hold: two that differ only before the last part,
\* and one in which the pattern matches twice and not at the first character
ListKeys ==
    {"1920-TX-AAA", "1920-TX-BBB", "1920-CMP-AAA", "19201-TX-1819-CMP-C"}

ListNames == {"State Championship", "State Championship aaa"}

\* what the API may answer for one listed event
NameBodies ==
    {JArr(<<Obj1("event_name", JStr(name))>>) : name \in ListNames}
    \cup {JNull}

ListBodies ==
    {JArr([j \in 1..Len(q) |-> EventRecord(q[j])]) :
        q \in SeqsUpTo(ListKeys, MaxListed)}

InitEvents ==
    /\ client \in {ClientNew(key) : key \in ApiKeys}
    /\ \E n \in TeamNumbers :
          /\ team = TeamNew(n, client)
          /\ \E list \in ListBodies, names \in [ListKeys -> NameBodies] :
                 remote = [target \in {TargetEvents(n, "SkyStone")}
                                       \cup {TargetEvent(k) : k \in ListKeys} |->
                              IF target = TargetEvents(n, "SkyStone") THEN list
                              ELSE names[SubSeq(target, 8, Len(target))]]
    /\ event = NoEvent
    /\ last = NoCall

NextEvents == First /\ \E s \in Seasons : TeamEvents(s)

SpecEvents == InitEvents /\ [][NextEvents]_vars

---------------------------------------------------------------------------
(* The map Team::events returns                                            *)

\* the list holds n events, their keys pairwise distinct
ListsDistinct(n) ==
    /\ HasListedKeys
    /\ Len(Received.a) = n
    /\ \A i, j \in 1..n : i # j => ListedKeys[i] # ListedKeys[j]

\* the name the API gives for the j-th listed event
ListedName(j) == Request(TargetEvent(ListedKeys[j])).a[1].o["event_name"].s

AllNamesRead ==
    \A j \in 1..Len(Received.a) : ~NameFails(TargetEvent(ListedKeys[j]))

\* C11: for every list of events with pairwise distinct event keys, three or
\* more events of one name included, Team::events returns a map with one
\* entry per event: no insertion overwrites an earlier one and the size of
\* the map is the number of events.
C11_OneEntryPerEvent ==
    ( /\ last.op = "Team::events"
      /\ \E n \in 0..(MaxListed + 1) : ListsDistinct(n)
      /\ AllNamesRead )
    => /\ last.out.k = "Ok"
       /\ Cardinality(DOMAIN last.out.v) = Len(Received.a)
       /\ \A j \in 1..Len(Received.a) :
              \E name \in DOMAIN last.out.v :
                  last.out.v[name].event_key = ListedKeys[j]

\* three events of one name, the keys of the second and the third alike
\* after the prefix: the third entry replaces the second
C11_Witness ==
    /\ last.op = "Team::events"
    /\ ListsDistinct(3)
    /\ AllNamesRead
    /\ \A j \in 1..3 : ListedName(j) = "State Championship"
    /\ ListedKeys = <<"1920-TX-BBB", "1920-TX-AAA", "1920-CMP-AAA">>
    /\ last.out.k = "Ok"
    /\ DOMAIN last.out.v = {"state_championship", "state_championship_aaa"}
    /\ last.out.v["state_championship_aaa"].event_key = "1920-CMP-AAA"

\* the display names lower-cased, spaces replaced by underscores
KeyOfName ==
    [name \in ListNames |->
        IF name = "State Championship" THEN "state_championship"
        ELSE "state_championship_aaa"]

\* the raw keys without the matches of the prefix pattern, lower-cased
RestOfKey ==
    [key \in ListKeys |->
        CASE key = "1920-TX-AAA" -> "aaa"
          [] key = "1920-TX-BBB" -> "bbb"
          [] key = "1920-CMP-AAA" -> "aaa"
          [] key = "19201-TX-1819-CMP-C" -> "1c"]

\* C12: when Team::events processes exactly two events of the same display
\* name and distinct raw keys, the map has two entries: the first event under
\* the name lower-cased with underscores for spaces, the second under that
\* key, "_" and the lower-cased rest of its raw key without the matches of
\* the prefix pattern.
C12_TwoEventsOneName ==
    ( /\ last.op = "Team::events"
      /\ ListsDistinct(2)
      /\ AllNamesRead
      /\ ListedName(1) = ListedName(2) )
    => /\ last.out.k = "Ok"
       /\ LET key == KeyOfName[ListedName(1)]
              second == key \o "_" \o RestOfKey[ListedKeys[2]]
          IN  /\ key # second
              /\ DOMAIN last.out.v = {key, second}
              /\ last.out.v[key] = EventNew(ListedKeys[1], last.self.client)
              /\ last.out.v[second] = EventNew(ListedKeys[2], last.self.client)

C12_Witness ==
    /\ last.op = "Team::events"
    /\ ListsDistinct(2)
    /\ AllNamesRead
    /\ ListedName(1) = "State Championship"
    /\ ListedName(2) = "State Championship"
    /\ ListedKeys[2] = "19201-TX-1819-CMP-C"
    /\ last.out.k = "Ok"
    /\ DOMAIN last.out.v = {"state_championship", "state_championship_1c"}

---------------------------------------------------------------------------
(* Determinism                                                             *)

\* a step in which the accessor of the call before is called again, on an
\* entity of the same key and with the same arguments, the remote unchanged
SameCallAgain ==
    /\ last.op # "none"
    /\ last'.op = last.op
    /\ last'.self = last.self
    /\ last'.args = last.args
    /\ remote' = remote

---------------------------------------------------------------------------
(* The keys of a property map                                              *)

\* C14: the key set of the map Team::properties or Event::properties returns
\* is the key set of the first object of the response array: no key is
\* dropped, added or renamed, last_active included.
C14_KeysKept ==
    (IsPropertiesCall /\ last.out.k = "Ok")
    => /\ HasFirstObject
       /\ DOMAIN last.out.v = DOMAIN FirstObject

C14_Witness ==
    /\ last.op = "Team::properties"
    /\ HasFirstObject
    /\ DOMAIN FirstObject = {"last_active", "x", "nickname"}
    /\ FirstObject["x"] = JNull
    /\ last.out.k = "Ok"
    /\ DOMAIN last.out.v = {"last_active", "x", "nickname"}

---------------------------------------------------------------------------
(* Event::name and Event::properties on every small event response         *)

NameKeys == {"event_name", "event_key", "x"}

NameObjects == UNION {[keys -> PropValues] : keys \in SUBSET NameKeys}

EventResponses ==
    NoArrayBodies
    \cup {JArr(<<>>), JArr(<<JStr("Foo")>>), JArr(<<JNull, Obj1("x", JNull)>>)}
    \cup {JArr(<<JObj(o)>>) : o \in NameObjects}

InitName ==
    /\ client \in {ClientNew(key) : key \in ApiKeys}
    /\ \E key \in EventKeys, body \in EventResponses :
          /\ event = EventNew(key, client)
          /\ remote = Only({TargetEvent(key)}, body)
    /\ team = NoTeam
    /\ last = NoCall

\* the caller reads the name and the properties of its event, in any order
\* and any number of times
NextName ==
    \/ EventName
    \/ EventProperties

SpecName == InitName /\ [][NextName]_vars

\* a step from a call of one of Event::name and Event::properties that
\* succeeded to a call of the other, on the same event, that succeeds
NameThenProperties ==
    /\ last.op = "Event::name"
    /\ last'.op = "Event::properties"
    /\ last'.self = last.self
    /\ last.out.k = "Ok"
    /\ last'.out.k = "Ok"

PropertiesThenName ==
    /\ last.op = "Event::properties"
    /\ last'.op = "Event::name"
    /\ last'.self = last.self
    /\ last.out.k = "Ok"
    /\ last'.out.k = "Ok"

\* C15: for every event response on which Event::name and Event::properties
\* both succeed, the name equals the value the property map holds under
\* event_name.
C15_NameIsProperty ==
    [][ /\ NameThenProperties =>
            /\ "event_name" \in DOMAIN last'.out.v
            /\ last'.out.v["event_name"] = last.out.v
        /\ PropertiesThenName =>
            /\ "event_name" \in DOMAIN last.out.v
            /\ last.out.v["event_name"] = last'.out.v ]_vars

\* Event::properties has succeeded on a response of three properties whose
\* event_name, a string, differs from its event_key
C15_Witness ==
    /\ last.op = "Event::properties"
    /\ last.out.k = "Ok"
    /\ DOMAIN last.out.v = NameKeys
    /\ last.out.v["event_name"] = "Foo"
    /\ last.out.v["event_key"] = "1920"
    /\ EventNameOf(Received) = Ok("Foo")

---------------------------------------------------------------------------
(* Entities after construction                                             *)

\* the entities the caller holds, and the events of a map Team::events
\* returned, carry the API key and the application name of the client
EntitiesCarryClient ==
    /\ client.application_name = "rustoa"
    /\ client.api_key \in ApiKeys
    /\ team # NoTeam => team.client = client
    /\ event # NoEvent => event.client = client
    /\ (last.op = "Team::events" /\ last.out.k = "Ok") =>
           \A name \in DOMAIN last.out.v :
               /\ last.out.v[name].client = client
               /\ \E j \in 1..Len(Received.a) :
                      last.out.v[name].event_key = ListedKeys[j]

\* a step leaves the client as it is; an accessor call, successful or not,
\* leaves the team and the event as they are and was made on one of them or
\* on the client; the caller's team or event is replaced only by a newly
\* made one, outside of every accessor call
EntitiesKept ==
    /\ client' = client
    /\ last' # last =>
           /\ team' = team
           /\ event' = event
           /\ IsAccessorCall' => last'.self \in {client, team, event}
    /\ team' # team =>
           /\ last' = last
           /\ \E n \in TeamNumbers :
                  team' = [team_number |-> n, client |-> client]
    /\ event' # event =>
           /\ last' = last
           /\ \E key \in EventKeys :
                  event' = [event_key |-> key, client |-> client]

\* C16: entities are never mutated: after Client::team(n) and any sequence
\* of accessor calls, successful or failing, on the team and on events
\* derived from it, the team still has team_number n, each event the key it
\* was created with, and the client, the teams and the events the API key
\* and the application name set when the client was made.
C16_EntitiesNeverMutated == []EntitiesCarryClient /\ [][EntitiesKept]_vars

\* an accessor has failed on an event of the team's list, and the caller
\* still holds the team and the event as they were made
C16_Witness ==
    /\ last.op = "Event::name"
    /\ Failed(last.out)
    /\ last.self = event
    /\ event = [event_key |-> "1920-TX-BBB", client |-> client]
    /\ team = [team_number |-> 16405, client |-> client]

=============================================================================
